---- MODULE Spec2Model ----
(***************************************************************************)
(* State-machine model of the RAG API service (src/main.py): the SQLite    *)
(* table "collections" (id, JSON data), the per-collection Chroma index    *)
(* directories under .chromadb/, and the HTTP handlers that act on them.   *)
(* Every handler is one action; the request it served and the response it  *)
(* produced are kept in the variables request and response.                *)
(***************************************************************************)
EXTENDS Integers, Sequences, FiniteSets

\* ------------------------------------------------------------------ bounds
MaxUuid == 3        \* uuid4 values drawn (collection ids and file ids)
MaxChunks == 2      \* chunks held by one collection's index
MaxPage == 3        \* largest page number requested

\* ------------------------------------------------------- program constants
PageMin == 1                 \* page: Query(1, ge=1)
PerPageMin == 1              \* per_page: Query(10, ge=1, le=100)
PerPageMax == 100
NMin == 1                    \* n: Query(10, ge=1, le=100)
NMax == 100
ThresholdMin == 0            \* similarity_threshold: Query(0.7, ge=0, le=1),
ThresholdMax == 10           \* in tenths: the integer k stands for k/10
StatusUnauthorized == 401    \* get_token's HTTPException
StatusNotFound == 404        \* "Collection not found"
StatusUnprocessable == 422   \* FastAPI's answer to a RequestValidationError
StatusServerError == 500     \* an exception no handler is registered for

\* --------------------------------------------------------- Optional values
None == <<>>
Some(v) == <<v>>
IsNone(o) == o = <<>>
Value(o) == o[1]

\* ------------------------------------------------------------------ strings
\* A header value is a sequence of one-character strings.
Whitespace == {" "}
Str_Bearer_ == <<"B", "e", "a", "r", "e", "r", " ">>
Str_Basic_ == <<"B", "a", "s", "i", "c", " ">>

startswith(s, prefix) ==
    /\ Len(s) >= Len(prefix)
    /\ SubSeq(s, 1, Len(prefix)) = prefix

\* str.split() without arguments: the maximal runs of non-whitespace.
RECURSIVE split_from(_, _, _)
split_from(s, i, cur) ==
    IF i > Len(s)
    THEN IF cur = <<>> THEN <<>> ELSE <<cur>>
    ELSE IF s[i] \in Whitespace
         THEN (IF cur = <<>> THEN <<>> ELSE <<cur>>) \o split_from(s, i + 1, <<>>)
         ELSE split_from(s, i + 1, Append(cur, s[i]))

split(s) == split_from(s, 1, <<>>)

\* ------------------------------------------------- authorisation (get_token)
\* The outcome of the dependency: an HTTPException(401), the IndexError that
\* authorization.split()[1] raises when split() has one element, or the token.
get_token(authorization) ==
    IF ~startswith(authorization, Str_Bearer_)
    THEN [kind |-> "HTTPException", status_code |-> StatusUnauthorized,
          detail |-> "Invalid authorization header"]
    ELSE IF Len(split(authorization)) < 2
         THEN [kind |-> "IndexError"]
         ELSE [kind |-> "return", value |-> split(authorization)[2]]

\* --------------------------------------------------------------------- JSON
\* A dict is a function on its keys; dicts of this program are built with
\* their keys in the order of KeyOrder (model_dump(), then id, created_at),
\* and dict.update keeps that order. JSON text is the sequence of the
\* <<key, value>> members in that order.
KeyOrder == <<"name", "authors", "extraction_strategy", "embedding_model",
              "id", "created_at">>

json_dumps(d) ==
    LET ks == SelectSeq(KeyOrder, LAMBDA k : k \in DOMAIN d)
    IN  [i \in 1..Len(ks) |-> <<ks[i], d[ks[i]]>>]

json_loads(text) ==
    [k \in {text[i][1] : i \in DOMAIN text} |->
        text[CHOOSE i \in DOMAIN text : text[i][1] = k][2]]

\* SQLite's json_extract(data, '$.k'): the member's value, NULL when absent.
json_extract(text, k) ==
    IF \E i \in DOMAIN text : text[i][1] = k
    THEN Some(text[CHOOSE i \in DOMAIN text : text[i][1] = k][2])
    ELSE None

\* ------------------------------------------------------------ request data
UpdateFields == {"name", "authors", "extraction_strategy", "embedding_model"}

\* Bodies of POST /v1/collections: a field that is absent from the JSON body
\* is None here. CollectionCreate requires all four (Field(...)).
CreateBodies ==
    {[name |-> Some("a"), authors |-> Some(<<"A">>),
      extraction_strategy |-> Some([pdf |-> "x"]), embedding_model |-> Some("m1")],
     [name |-> Some("b"), authors |-> Some(<<"B">>),
      extraction_strategy |-> Some([pdf |-> "y"]), embedding_model |-> Some("m2")],
     [name |-> None, authors |-> Some(<<"A">>),
      extraction_strategy |-> Some([pdf |-> "x"]), embedding_model |-> Some("m1")],
     [name |-> None, authors |-> None, extraction_strategy |-> None,
      embedding_model |-> None]}

\* The fields of CollectionCreate the body fails to validate.
CollectionCreate_errors(body) == {f \in UpdateFields : IsNone(body[f])}

\* CollectionCreate.model_dump() of a valid body.
CollectionCreate_model_dump(body) == [f \in UpdateFields |-> Value(body[f])]

\* Bodies of PATCH: JSON objects. CollectionUpdate keeps its four fields, reads
\* an absent one as None and ignores any other member; model_dump() has all
\* four.
UpdateBodies ==
    {<<>>,
     [name |-> "b"],
     [name |-> "b", authors |-> <<"B">>, extraction_strategy |-> [pdf |-> "y"],
      embedding_model |-> "m2"],
     [id |-> 0, created_at |-> 0]}

CollectionUpdate_model_dump(body) ==
    [f \in UpdateFields |-> IF f \in DOMAIN body THEN Some(body[f]) ELSE None]

\* ---------------------------------------------------------------- responses
\* http_exception_handler: the ErrorResponse envelope, model_dump()ed (errors
\* is not set, so it is dumped as None).
documentation_url(status_code) == <<"https://rag.straive.app/docs/", status_code>>

http_exception_handler(status_code, detail) ==
    [status |-> status_code, kind |-> "json",
     body |-> [message |-> detail,
               documentation_url |-> documentation_url(status_code),
               errors |-> None,
               status_code |-> status_code]]

\* No handler is registered for RequestValidationError: FastAPI's own answers
\* 422 with {"detail": [...]}.
request_validation_error(errors) ==
    [status |-> StatusUnprocessable, kind |-> "json", body |-> [detail |-> errors]]

\* Any other exception reaches the server's error middleware: 500, plain text.
unhandled_exception ==
    [status |-> StatusServerError, kind |-> "text", body |-> <<>>]

json_response(status_code, content) ==
    [status |-> status_code, kind |-> "json", body |-> content]

no_content == [status |-> 204, kind |-> "empty", body |-> <<>>]

\* -------------------------------------------------------- collection store
\* The table collections (id TEXT PRIMARY KEY, data JSON) is the sequence of
\* its rows in rowid order: an INSERT appends, a DELETE removes in place.
NoId == 0           \* a path parameter that is no uuid the service issued

id_column(rows) == {rows[i].id : i \in DOMAIN rows}

\* SELECT data FROM collections WHERE id = ?  ... .fetchone()
fetchone_data(rows, collection_id) ==
    IF \E i \in DOMAIN rows : rows[i].id = collection_id
    THEN Some(rows[CHOOSE i \in DOMAIN rows : rows[i].id = collection_id].data)
    ELSE None

not_found == http_exception_handler(StatusNotFound, "Collection not found")

\* GET /v1/collections/{collection_id}
get_collection(rows, collection_id) ==
    LET result == fetchone_data(rows, collection_id)
    IN  IF IsNone(result)
        THEN not_found
        ELSE json_response(200, json_loads(Value(result)))

\* create_collection's data: model_dump() plus the generated id and timestamp.
\* (the id being one value drawn once, not one per request)
create_data_fixed_id(collection, collection_id, now) ==
    [name |-> collection.name, authors |-> collection.authors,
     extraction_strategy |-> collection.extraction_strategy,
     embedding_model |-> collection.embedding_model,
     id |-> 1, created_at |-> now]

create_data(collection, collection_id, now) ==
    [name |-> collection.name, authors |-> collection.authors,
     extraction_strategy |-> collection.extraction_strategy,
     embedding_model |-> collection.embedding_model,
     id |-> collection_id, created_at |-> now]

\* POST /v1/collections: the response and the table afterwards.
create_collection(rows, body, collection_id, now) ==
    IF CollectionCreate_errors(body) # {}
    THEN [response |-> request_validation_error(CollectionCreate_errors(body)),
          rows |-> rows]
    ELSE LET data == create_data(CollectionCreate_model_dump(body), collection_id, now)
         IN  [response |-> json_response(201, data),
              rows |-> Append(rows, [id |-> collection_id, data |-> json_dumps(data)])]

\* data.update({k: v for k, v in update_data.model_dump().items() if v is not None})
dict_update(data, update_data) ==
    LET given == {k \in DOMAIN update_data : ~IsNone(update_data[k])}
    IN  [k \in DOMAIN data \cup given |->
            IF k \in given THEN Value(update_data[k]) ELSE data[k]]

\* UPDATE collections SET data = ? WHERE id = ?
\* (and the same without its WHERE)
update_rows_everywhere(rows, collection_id, text) ==
    [i \in DOMAIN rows |-> [rows[i] EXCEPT !.data = text]]

update_rows(rows, collection_id, text) ==
    [i \in DOMAIN rows |->
        IF rows[i].id = collection_id THEN [rows[i] EXCEPT !.data = text] ELSE rows[i]]

\* PATCH /v1/collections/{collection_id}
update_collection(rows, collection_id, update_data) ==
    LET existing == fetchone_data(rows, collection_id)
    IN  IF IsNone(existing)
        THEN [response |-> not_found, rows |-> rows]
        ELSE LET data == dict_update(json_loads(Value(existing)),
                                     CollectionUpdate_model_dump(update_data))
             IN  [response |-> json_response(200, data),
                  rows |-> update_rows(rows, collection_id, json_dumps(data))]

\* DELETE FROM collections WHERE id = ?
delete_rows(rows, collection_id) ==
    SelectSeq(rows, LAMBDA r : r.id # collection_id)

\* DELETE /v1/collections/{collection_id}: result.rowcount == 0 is the 404.
delete_collection(rows, collection_id) ==
    IF Len(delete_rows(rows, collection_id)) = Len(rows)
    THEN [response |-> not_found, rows |-> rows]
    ELSE [response |-> no_content, rows |-> delete_rows(rows, collection_id)]

\* ------------------------------------------------------- list_collections
\* The sort parameter is a sequence of tokens, "," and "-" among them:
\* <<"-", "name", ",", "embedding_model">> is "-name,embedding_model".
RECURSIVE split_on(_, _, _)
split_on(s, sep, cur) ==
    IF s = <<>>
    THEN <<cur>>
    ELSE IF Head(s) = sep
         THEN <<cur>> \o split_on(Tail(s), sep, <<>>)
         ELSE split_on(Tail(s), sep, Append(cur, Head(s)))

\* for field in sort.split(','): "json_extract(...) DESC" or "... ASC"
sort_fields(sort) ==
    LET fields == split_on(sort, ",", <<>>)
    IN  [i \in DOMAIN fields |->
            IF fields[i] # <<>> /\ Head(fields[i]) = "-"
            THEN [key |-> Tail(fields[i])[1], desc |-> TRUE]
            ELSE [key |-> fields[i][1], desc |-> FALSE]]

\* SQLite's ordering of the values the rows hold: NULL first, then text in
\* binary collation.
Collate(v) ==
    IF IsNone(v) THEN 0
    ELSE CASE Value(v) = "a" -> 1
           [] Value(v) = "b" -> 2
           [] Value(v) = "m1" -> 1
           [] Value(v) = "m2" -> 2
           [] OTHER -> 3

\* Whether row x goes before row y under ORDER BY fields[i..]; rows that tie
\* on every field keep their rowid order.
RECURSIVE before(_, _, _, _)
before(x, y, fields, i) ==
    IF i > Len(fields) THEN TRUE
    ELSE LET cx == Collate(json_extract(x.data, fields[i].key))
             cy == Collate(json_extract(y.data, fields[i].key))
         IN  IF cx = cy THEN before(x, y, fields, i + 1)
             ELSE IF fields[i].desc THEN cx > cy ELSE cx < cy

RECURSIVE insert_row(_, _, _)
insert_row(x, sorted, fields) ==
    IF sorted = <<>> THEN <<x>>
    ELSE IF before(x, Head(sorted), fields, 1)
         THEN <<x>> \o sorted
         ELSE <<Head(sorted)>> \o insert_row(x, Tail(sorted), fields)

RECURSIVE order_by(_, _)
order_by(rows, fields) ==
    IF rows = <<>> THEN <<>>
    ELSE insert_row(Head(rows), order_by(Tail(rows), fields), fields)

\* WHERE json_extract(data, '$.k') = ? AND ...  (no WHERE for an empty dict)
where(rows, filters_dict) ==
    SelectSeq(rows, LAMBDA r :
        \A k \in DOMAIN filters_dict : json_extract(r.data, k) = Some(filters_dict[k]))

\* LIMIT ? OFFSET ?
limit_offset(rows, limit, offset) ==
    SubSeq(rows, offset + 1, IF offset + limit < Len(rows) THEN offset + limit ELSE Len(rows))

\* SELECT COUNT(*) FROM collections
count_all(rows) == Len(rows)

\* The rows the built query returns.
select_page(rows, page, per_page, filters_dict, sort) ==
    LET offset == (page - 1) * per_page
        matching == where(rows, filters_dict)
        ordered == IF IsNone(sort) \/ Value(sort) = <<>>
                   THEN matching
                   ELSE order_by(matching, sort_fields(Value(sort)))
    IN  limit_offset(ordered, per_page, offset)

\* GET /v1/collections. filters is the parameter as json.loads reads it: None
\* when it is not JSON (json.loads raises).
list_collections(rows, page, per_page, filters, sort) ==
    LET errors == (IF page < PageMin THEN {"page"} ELSE {})
                  \cup (IF per_page < PerPageMin \/ per_page > PerPageMax
                        THEN {"per_page"} ELSE {})
    IN  IF errors # {} THEN request_validation_error(errors)
        ELSE IF IsNone(filters) THEN unhandled_exception
        ELSE LET results == select_page(rows, page, per_page, Value(filters), sort)
             IN  json_response(200,
                    [collections |-> [i \in DOMAIN results |-> json_loads(results[i].data)],
                     total |-> count_all(rows)])

\* ------------------------------------------------ dependencies (get_token)
\* FastAPI solves Depends(get_token) before the handler runs. A request with
\* no Authorization header fails Header(...): the dependency is not called and
\* the request is answered 422 together with the other parameter errors. With
\* a header, get_token runs first and what it raises ends the request.
\* The result is the response that rejects the request, or None to go on.
solve_dependencies(authorization, errors) ==
    IF IsNone(authorization)
    THEN Some(request_validation_error(errors \cup {"authorization"}))
    ELSE LET token == get_token(Value(authorization))
         IN  IF token.kind = "HTTPException"
             THEN Some(http_exception_handler(token.status_code, token.detail))
             ELSE IF token.kind = "IndexError"
             THEN Some(unhandled_exception)
             ELSE IF errors # {}
             THEN Some(request_validation_error(errors))
             ELSE None

\* ------------------------------------------------------------- documents
\* An uploaded file: its name and the number of chunks split_documents makes
\* of it. A chunk in a collection's Chroma index carries the file's name
\* (metadata "key"), its page and the model that embedded it.
Files == {[filename |-> "f.pdf", pages |-> 1], [filename |-> "g.pdf", pages |-> 1]}

\* What the libraries do with the upload: PyMuPDFLoader.load() may raise (not a
\* PDF), and Chroma.from_documents may raise (the embedding API fails, or the
\* index holds vectors of another dimension).
IngestOutcomes == {"ok", "load_error", "index_error"}

chunks_of(file, embedding_model) ==
    [p \in 1..file.pages |->
        [key |-> file.filename, page |-> p - 1, embedding_model |-> embedding_model]]

\* POST /v1/collections/{collection_id}/documents: the response and the index
\* directories afterwards. file_id is the uuid4 drawn at the return.
add_document(rows, index, collection_id, file, authorization, outcome, file_id) ==
    LET rejected == solve_dependencies(authorization, {})
        result == fetchone_data(rows, collection_id)
    IN  IF ~IsNone(rejected) THEN [response |-> Value(rejected), index |-> index]
        ELSE IF IsNone(result) THEN [response |-> not_found, index |-> index]
        ELSE IF outcome # "ok" THEN [response |-> unhandled_exception, index |-> index]
        ELSE LET embedding_model == json_loads(Value(result)).embedding_model
             IN  [response |-> json_response(201,
                        [file_id |-> file_id, file_name |-> file.filename,
                         status |-> "processed"]),
                  index |-> [index EXCEPT ![collection_id] =
                                @ \o chunks_of(file, embedding_model)]]

\* (a delete that drops the chunks of one file, the one ingested last, and
\* keeps the rest of the index)
delete_document_one_file(rows, index, collection_id, file_id, authorization) ==
    LET rejected == solve_dependencies(authorization, {})
        result == fetchone_data(rows, collection_id)
        chunks == index[collection_id]
    IN  IF ~IsNone(rejected) THEN [response |-> Value(rejected), index |-> index]
        ELSE IF IsNone(result) THEN [response |-> not_found, index |-> index]
        ELSE [response |-> no_content,
              index |-> [index EXCEPT ![collection_id] =
                            SubSeq(chunks, 1, IF chunks = <<>> THEN 0 ELSE Len(chunks) - 1)]]

\* DELETE /v1/collections/{collection_id}/documents/{file_id}:
\* shutil.rmtree(".chromadb/{collection_id}", ignore_errors=True)
delete_document(rows, index, collection_id, file_id, authorization) ==
    LET rejected == solve_dependencies(authorization, {})
        result == fetchone_data(rows, collection_id)
    IN  IF ~IsNone(rejected) THEN [response |-> Value(rejected), index |-> index]
        ELSE IF IsNone(result) THEN [response |-> not_found, index |-> index]
        ELSE [response |-> no_content,
              index |-> [index EXCEPT ![collection_id] = <<>>]]

\* ------------------------------------------------------------------ search
\* Scores and thresholds are in tenths. What the external search API answers
\* is not under the service's control: any status, any list of results.
result_of(score) == [document_id |-> "d", text |-> "fox", score |-> score]

ResultLists ==
    {<<>>, <<result_of(9)>>, <<result_of(5)>>, <<result_of(9), result_of(5)>>,
     <<result_of(5), result_of(9)>>}

BackendReplies ==
    {[status_code |-> 200,
      json |-> [results |-> rs, total |-> Len(rs), processing_time |-> "0.1s"]] :
        rs \in ResultLists}
    \cup {[status_code |-> 200, json |-> [status |-> "ok"]],
          [status_code |-> 404, json |-> [detail |-> "Collection not found"]],
          [status_code |-> 500, json |-> [detail |-> "Internal error"]]}

\* response_model=SearchResponse: a reply without the model's fields fails the
\* response validation.
SearchResponse_valid(json) ==
    {"results", "total", "processing_time"} \subseteq DOMAIN json

\* forward_request, then the response model.
forward_request(reply) ==
    IF reply.status_code >= 400
    THEN http_exception_handler(reply.status_code, reply.json)
    ELSE IF SearchResponse_valid(reply.json)
         THEN json_response(200, reply.json)
         ELSE unhandled_exception

\* GET /v1/collections/{collection_id}/search: the response, and the call made
\* to the external API (None when none was made).
vector_search(collection_id, n, similarity_threshold, authorization, reply) ==
    LET errors == (IF n < NMin \/ n > NMax THEN {"n"} ELSE {})
                  \cup (IF similarity_threshold < ThresholdMin
                           \/ similarity_threshold > ThresholdMax
                        THEN {"similarity_threshold"} ELSE {})
        rejected == solve_dependencies(authorization, errors)
    IN  IF ~IsNone(rejected)
        THEN [response |-> Value(rejected), forwarded |-> None]
        ELSE [response |-> forward_request(reply),
              forwarded |-> Some([collection_id |-> collection_id,
                                  token |-> get_token(Value(authorization)).value,
                                  n |-> n,
                                  similarity_threshold |-> similarity_threshold])]

\* ------------------------------------------------------------------- state
VARIABLES
    collections,    \* the rows of table collections, in rowid order
    chromadb,       \* .chromadb/<id>: the chunks of each collection's index
    uuid_count,     \* uuid4 values drawn so far; the next one is uuid_count + 1
    clock,          \* the instant datetime.now() returns next
    created,        \* the bodies of the 201 answers to POST /v1/collections
    request,        \* the request served last
    response,       \* the response to it
    forwarded,      \* the call it made to the external search API, or None
    tasks,          \* the handler coroutines the event loop holds
    commits,        \* the UPDATE statements committed, in commit order
    tempfiles       \* the temporary files on disk, named by the task that made them

vars == <<collections, chromadb, uuid_count, clock, created, request, response, forwarded,
          tasks, commits, tempfiles>>

loop == <<tasks, commits, tempfiles>>

Uuids == 1..MaxUuid

\* The collection ids a client can name: the ones POST returned, and one that
\* was never issued.
PathIds == {NoId} \cup {c.id : c \in created}

Authorizations ==
    {None, Some(Str_Basic_ \o <<"x">>), Some(Str_Bearer_), Some(Str_Bearer_ \o <<"t">>)}

\* The event loop runs one handler at a time, and no handler of this program
\* yields between its reads and writes of the table: a request is served
\* when the one before it has been answered.
NoRequest == [op |-> "none"]
NoResponse == [status |-> 0, kind |-> "empty", body |-> <<>>]
Idle == request = NoRequest

Init ==
    /\ collections = <<>>
    /\ chromadb = [u \in Uuids \cup {NoId} |-> <<>>]
    /\ uuid_count = 0
    /\ clock = 1
    /\ created = {}
    /\ request = NoRequest
    /\ response = NoResponse
    /\ forwarded = None
    /\ tasks = <<>>
    /\ commits = <<>>
    /\ tempfiles = {}

\* ----------------------------------------------------------------- actions
CreateCollection ==
    /\ Idle
    /\ uuid_count < MaxUuid
    /\ \E body \in CreateBodies :
        LET r == create_collection(collections, body, uuid_count + 1, clock)
        IN  /\ request' = [op |-> "create_collection", body |-> body]
            /\ response' = r.response
            /\ collections' = r.rows
            /\ uuid_count' = IF r.response.status = 201 THEN uuid_count + 1 ELSE uuid_count
            /\ clock' = IF r.response.status = 201 THEN clock + 1 ELSE clock
            /\ created' = IF r.response.status = 201
                          THEN created \cup {r.response.body} ELSE created
    /\ forwarded' = None
    /\ UNCHANGED chromadb
    /\ UNCHANGED loop

GetCollection ==
    /\ Idle
    /\ \E collection_id \in PathIds :
        /\ request' = [op |-> "get_collection", collection_id |-> collection_id]
        /\ response' = get_collection(collections, collection_id)
    /\ forwarded' = None
    /\ UNCHANGED <<collections, chromadb, uuid_count, clock, created>>
    /\ UNCHANGED loop

UpdateCollection ==
    /\ Idle
    /\ \E collection_id \in PathIds, update_data \in UpdateBodies :
        LET r == update_collection(collections, collection_id, update_data)
        IN  /\ request' = [op |-> "update_collection", collection_id |-> collection_id,
                           body |-> update_data]
            /\ response' = r.response
            /\ collections' = r.rows
    /\ forwarded' = None
    /\ UNCHANGED <<chromadb, uuid_count, clock, created>>
    /\ UNCHANGED loop

DeleteCollection ==
    /\ Idle
    /\ \E collection_id \in PathIds :
        LET r == delete_collection(collections, collection_id)
        IN  /\ request' = [op |-> "delete_collection", collection_id |-> collection_id]
            /\ response' = r.response
            /\ collections' = r.rows
    /\ forwarded' = None
    /\ UNCHANGED <<chromadb, uuid_count, clock, created>>
    /\ UNCHANGED loop

PerPages == {1, 2}
FilterParams == {Some(<<>>), Some([name |-> "a"])}
SortParams == {Some(<<"-", "name">>), Some(<<"name", ",", "-", "embedding_model">>)}

ListRequests ==
    [page : 1..MaxPage, per_page : PerPages, filters : FilterParams, sort : {None}]
    \cup [page : {1}, per_page : {2}, filters : {Some(<<>>)}, sort : SortParams]
    \cup {[page |-> 0, per_page |-> 10, filters |-> Some(<<>>), sort |-> None],
          [page |-> 1, per_page |-> 101, filters |-> Some(<<>>), sort |-> None],
          [page |-> 1, per_page |-> 10, filters |-> None, sort |-> None]}

ListCollections ==
    /\ Idle
    /\ \E q \in ListRequests :
        /\ request' = [op |-> "list_collections", query |-> q]
        /\ response' = list_collections(collections, q.page, q.per_page, q.filters, q.sort)
    /\ forwarded' = None
    /\ UNCHANGED <<collections, chromadb, uuid_count, clock, created>>
    /\ UNCHANGED loop

\* The uploads tried: each file with a well-formed header, and one file with
\* each of the other headers.
BearerT == Some(Str_Bearer_ \o <<"t">>)
UploadRequests ==
    [file : Files, authorization : {BearerT}]
    \cup [file : {[filename |-> "f.pdf", pages |-> 1]},
          authorization : Authorizations]

\* The upload is read in full here, so the temporary file is created and
\* unlinked within the step; UploadRun below follows a read that fails.
AddDocument ==
    /\ Idle
    /\ uuid_count < MaxUuid
    /\ \E collection_id \in PathIds, q \in UploadRequests :
        /\ Len(chromadb[collection_id]) + q.file.pages <= MaxChunks
        /\ \E outcome \in IF IsNone(solve_dependencies(q.authorization, {}))
                             /\ collection_id \in id_column(collections)
                          THEN IngestOutcomes ELSE {"ok"} :
            LET r == add_document(collections, chromadb, collection_id, q.file,
                                  q.authorization, outcome, uuid_count + 1)
            IN  /\ request' = [op |-> "add_document", collection_id |-> collection_id,
                               authorization |-> q.authorization, file |-> q.file]
                /\ response' = r.response
                /\ chromadb' = r.index
                /\ uuid_count' = IF r.response.status = 201
                                 THEN uuid_count + 1 ELSE uuid_count
    /\ forwarded' = None
    /\ UNCHANGED <<collections, clock, created>>
    /\ UNCHANGED loop

\* The deletes tried: a file id that was never issued and the uuid drawn
\* last, with a well-formed header, and the former with each other header.
DeleteDocument ==
    /\ Idle
    /\ \E collection_id \in PathIds,
          q \in [file_id : {NoId, uuid_count}, authorization : {BearerT}]
                \cup [file_id : {NoId}, authorization : Authorizations] :
        LET r == delete_document(collections, chromadb, collection_id, q.file_id,
                                 q.authorization)
        IN  /\ request' = [op |-> "delete_document", collection_id |-> collection_id,
                           authorization |-> q.authorization, file_id |-> q.file_id]
            /\ response' = r.response
            /\ chromadb' = r.index
    /\ forwarded' = None
    /\ UNCHANGED <<collections, uuid_count, clock, created>>
    /\ UNCHANGED loop

\* The search requests tried: a well-formed one, and it with one part changed.
SearchIds == {NoId, 1}
SearchRequests ==
    {[authorization |-> BearerT, n |-> 1, similarity_threshold |-> 7],
     [authorization |-> BearerT, n |-> 0, similarity_threshold |-> 7],
     [authorization |-> BearerT, n |-> 101, similarity_threshold |-> 7],
     [authorization |-> BearerT, n |-> 10, similarity_threshold |-> 20],
     [authorization |-> None, n |-> 10, similarity_threshold |-> 7],
     [authorization |-> None, n |-> 0, similarity_threshold |-> 7],
     [authorization |-> Some(Str_Basic_ \o <<"x">>), n |-> 10, similarity_threshold |-> 7],
     [authorization |-> Some(Str_Bearer_), n |-> 10, similarity_threshold |-> 7]}

\* Whether the request gets as far as the call of forward_request.
reaches_backend(q) ==
    ~IsNone(vector_search(NoId, q.n, q.similarity_threshold, q.authorization,
                          CHOOSE b \in BackendReplies : TRUE).forwarded)

VectorSearch ==
    /\ Idle
    /\ \E collection_id \in SearchIds, q \in SearchRequests :
        \E reply \in IF reaches_backend(q)
                     THEN BackendReplies ELSE {CHOOSE b \in BackendReplies : TRUE} :
            LET r == vector_search(collection_id, q.n, q.similarity_threshold,
                                   q.authorization, reply)
            IN  /\ request' = [op |-> "vector_search", collection_id |-> collection_id,
                               authorization |-> q.authorization, n |-> q.n,
                               similarity_threshold |-> q.similarity_threshold]
                /\ response' = r.response
                /\ forwarded' = r.forwarded
    /\ UNCHANGED <<collections, chromadb, uuid_count, clock, created>>
    /\ UNCHANGED loop

\* The response is sent; the server waits for the next request.
Respond ==
    /\ ~Idle
    /\ request' = NoRequest
    /\ response' = NoResponse
    /\ forwarded' = None
    /\ UNCHANGED <<collections, chromadb, uuid_count, clock, created>>
    /\ UNCHANGED loop

Next ==
    \/ CreateCollection
    \/ GetCollection
    \/ UpdateCollection
    \/ DeleteCollection
    \/ ListCollections
    \/ AddDocument
    \/ DeleteDocument
    \/ VectorSearch
    \/ Respond

Spec == Init /\ [][Next]_vars

\* ------------------------------------------------------------ the event loop
\* uvicorn.run serves the app in one process with one event loop. Every handler
\* is a coroutine (async def): the loop runs it until it awaits, and only then
\* may run another. Spec above serves one request at a time; SpecTasks below
\* follows the PATCH and upload handlers turn by turn, several in flight.
MaxTasks == 2

\* update_collection holds no await: its SELECT, merge, UPDATE and commit are
\* one turn of the loop.
\* (and the same handler with an await between its SELECT and its UPDATE)
update_collection_awaits_after_select == TRUE

update_collection_awaits == FALSE

\* The PATCH bodies sent concurrently: they overlap in name, with different
\* values, and each sets a field another leaves alone.
TaskUpdateBodies ==
    {[name |-> "b"],
     [name |-> "c", embedding_model |-> "m2"],
     [authors |-> <<"B">>]}

TaskIds == {NoId, 1}

\* The table after one POST /v1/collections.
InitBody == CHOOSE body \in CreateBodies :
                CollectionCreate_errors(body) = {} /\ Value(body.name) = "a"
InitData == create_data(CollectionCreate_model_dump(InitBody), 1, 1)

InitTasks ==
    /\ collections = create_collection(<<>>, InitBody, 1, 1).rows
    /\ chromadb = [u \in Uuids \cup {NoId} |-> <<>>]
    /\ uuid_count = 1
    /\ clock = 2
    /\ created = {InitData}
    /\ request = NoRequest
    /\ response = NoResponse
    /\ forwarded = None
    /\ tasks = <<>>
    /\ commits = <<>>
    /\ tempfiles = {}

\* A coroutine: the handler it runs, where it stands (ready: its parameters
\* are parsed; done: it has returned or raised), its parameters, the sqlite
\* connection it holds, what its locals keep across an await, and the status
\* of its response.
new_task(op, collection_id, input) ==
    [op |-> op, pc |-> "ready", collection_id |-> collection_id, input |-> input,
     db |-> "none", local |-> None, status |-> 0]

\* The handler returns or raises: its frame goes, and with it the last
\* reference to the connection get_db() opened (no handler calls close(); the
\* with block only commits or rolls back), which the interpreter then closes.
finished(task, status) ==
    [task EXCEPT !.pc = "done", !.db = "closed", !.local = None, !.status = status]

\* The request reaches the app and FastAPI parses its parameters.
PatchArrive ==
    /\ Len(tasks) < MaxTasks
    /\ \E collection_id \in TaskIds, body \in TaskUpdateBodies :
        tasks' = Append(tasks, new_task("update_collection", collection_id, body))
    /\ UNCHANGED <<collections, chromadb, uuid_count, clock, created,
                   request, response, forwarded, commits, tempfiles>>

\* UPDATE collections SET data = ? WHERE id = ?, committed as the with block
\* is left.
update_commit(t, data) ==
    /\ collections' = update_rows(collections, tasks[t].collection_id, json_dumps(data))
    /\ commits' = Append(commits, [task |-> t,
                                   collection_id |-> tasks[t].collection_id,
                                   update_data |-> tasks[t].input])
    /\ tasks' = [tasks EXCEPT ![t] = finished(@, 200)]

\* One turn of the loop on a PATCH handler.
PatchRun(t) ==
    /\ tasks[t].op = "update_collection"
    /\ tasks[t].pc \in {"ready", "selected"}
    /\ IF tasks[t].pc = "selected"
       THEN update_commit(t, Value(tasks[t].local))
       ELSE LET existing == fetchone_data(collections, tasks[t].collection_id)
            IN  IF IsNone(existing)
                THEN /\ tasks' = [tasks EXCEPT ![t] = finished(@, StatusNotFound)]
                     /\ UNCHANGED <<collections, commits>>
                ELSE LET data == dict_update(json_loads(Value(existing)),
                                             CollectionUpdate_model_dump(tasks[t].input))
                     IN  IF update_collection_awaits
                         THEN /\ tasks' = [tasks EXCEPT ![t].pc = "selected",
                                                        ![t].db = "open",
                                                        ![t].local = Some(data)]
                              /\ UNCHANGED <<collections, commits>>
                         ELSE update_commit(t, data)
    /\ UNCHANGED <<chromadb, uuid_count, clock, created,
                   request, response, forwarded, tempfiles>>

\* POST /v1/collections/{collection_id}/documents arrives with a well-formed
\* Authorization header (get_token is resolved before the handler runs).
TaskFiles == {f \in Files : f.filename = "f.pdf"}

UploadArrive ==
    /\ Len(tasks) < MaxTasks
    /\ \E collection_id \in TaskIds, file \in TaskFiles :
        tasks' = Append(tasks, new_task("add_document", collection_id, file))
    /\ UNCHANGED <<collections, chromadb, uuid_count, clock, created,
                   request, response, forwarded, commits, tempfiles>>

\* temp_file.write(await file.read()): reading the upload or writing it to the
\* temporary file may raise (an I/O error on the spooled upload, a full disk).
ReadOutcomes == {"ok", "read_error"}

\* One turn of the loop on an upload handler. The first runs to the await of
\* file.read(): the SELECT, then NamedTemporaryFile(delete=False), which
\* creates the file. The second runs from that await to the end: the write
\* inside the with block, then the try block and its finally, os.unlink.
UploadRun(t) ==
    /\ tasks[t].op = "add_document"
    /\ tasks[t].pc \in {"ready", "reading"}
    /\ IF tasks[t].pc = "ready"
       THEN LET result == fetchone_data(collections, tasks[t].collection_id)
            IN  IF IsNone(result)
                THEN /\ tasks' = [tasks EXCEPT ![t] = finished(@, StatusNotFound)]
                     /\ UNCHANGED <<chromadb, uuid_count, tempfiles>>
                ELSE /\ tasks' = [tasks EXCEPT
                            ![t].pc = "reading",
                            ![t].db = "open",
                            ![t].local = Some(json_loads(Value(result)).embedding_model)]
                     /\ tempfiles' = tempfiles \cup {t}
                     /\ UNCHANGED <<chromadb, uuid_count>>
       ELSE \E read \in ReadOutcomes, outcome \in IngestOutcomes :
                IF read # "ok"
                THEN /\ tasks' = [tasks EXCEPT ![t] = finished(@, StatusServerError)]
                     /\ UNCHANGED <<chromadb, uuid_count, tempfiles>>
                ELSE /\ tempfiles' = tempfiles \ {t}
                     /\ IF outcome # "ok"
                        THEN /\ tasks' = [tasks EXCEPT ![t] = finished(@, StatusServerError)]
                             /\ UNCHANGED <<chromadb, uuid_count>>
                        ELSE /\ Len(chromadb[tasks[t].collection_id]) + tasks[t].input.pages
                                    <= MaxChunks
                             /\ chromadb' = [chromadb EXCEPT ![tasks[t].collection_id] =
                                    @ \o chunks_of(tasks[t].input, Value(tasks[t].local))]
                             /\ uuid_count' = uuid_count + 1
                             /\ tasks' = [tasks EXCEPT ![t] = finished(@, 201)]
    /\ UNCHANGED <<collections, clock, created, request, response, forwarded, commits>>

NextTasks ==
    \/ PatchArrive
    \/ UploadArrive
    \/ \E t \in DOMAIN tasks : PatchRun(t)
    \/ \E t \in DOMAIN tasks : UploadRun(t)

SpecTasks == InitTasks /\ [][NextTasks]_vars

\* ================================================================== claims
\* The dict a GET of collection_id returns in the given table.
stored(rows, collection_id) == json_loads(Value(fetchone_data(rows, collection_id)))

\* The ids POST /v1/collections has returned, and those of them whose DELETE
\* has succeeded (only DELETE removes a row).
created_ids == {c.id : c \in created}
deleted_ids == created_ids \ id_column(collections)

\* C1: after a DELETE of a collection has succeeded, a GET of its id returns
\* 404 and the chunks ingested into it are gone: its vector index is empty.
C1_DeleteCascades ==
    \A collection_id \in deleted_ids :
        /\ get_collection(collections, collection_id).status = StatusNotFound
        /\ (request.op = "get_collection" /\ request.collection_id = collection_id
                => response.status = StatusNotFound)
        /\ chromadb[collection_id] = <<>>

\* The part of C1 about GET alone.
C1_GetAfterDelete ==
    \A collection_id \in deleted_ids :
        /\ get_collection(collections, collection_id).status = StatusNotFound
        /\ (request.op = "get_collection" /\ request.collection_id = collection_id
                => response.status = StatusNotFound)

\* C2: a POST of a valid body answers 201 with the submitted name, authors,
\* extraction_strategy and embedding_model and an id no earlier POST returned;
\* a GET of that id returns exactly the POST's body (id and created_at
\* included) right after the POST, and what a GET of a created id returns is
\* changed by no step other than a PATCH or DELETE of that id. A GET's response
\* is what get_collection reads from the table.
C2_Step ==
    /\ request'.op = "create_collection" /\ CollectionCreate_errors(request'.body) = {}
        => /\ response'.status = 201
           /\ \A f \in UpdateFields : response'.body[f] = Value(request'.body[f])
           /\ response'.body.id \notin created_ids
           /\ get_collection(collections', response'.body.id).status = 200
           /\ get_collection(collections', response'.body.id).body = response'.body
    /\ \A collection_id \in created_ids \cap id_column(collections) :
        ~(request'.op \in {"update_collection", "delete_collection"}
          /\ request'.collection_id = collection_id)
        => /\ get_collection(collections', collection_id).status = 200
           /\ get_collection(collections', collection_id).body
                = get_collection(collections, collection_id).body
    /\ request'.op = "get_collection" /\ request'.collection_id \in id_column(collections)
        => /\ response'.status = 200
           /\ response'.body = get_collection(collections, request'.collection_id).body

C2_CreateThenGet == [][C2_Step]_vars

\* Two collections created with equal names are both fetched as created.
C2_Witness ==
    /\ request.op = "get_collection"
    /\ response.status = 200
    /\ response.body \in created
    /\ \E c \in created : c.id # response.body.id /\ c.name = response.body.name

\* C3: for every per_page and filters, each page of list_collections has at
\* most per_page items, page p is the slice of the filtered rows starting at
\* offset (p-1)*per_page, every item equals the filters field by field, the
\* pages up to the reported total hold every matching collection exactly once,
\* and the reported total is the number of matching collections.
C3_Matching(filters_dict) ==
    {collection_id \in id_column(collections) :
        \A k \in DOMAIN filters_dict :
            stored(collections, collection_id)[k] = filters_dict[k]}

C3_Page(p, per_page, filters_dict) ==
    list_collections(collections, p, per_page, Some(filters_dict), None).body

C3_PagesHold(per_page, filters_dict) ==
    LET total == C3_Page(1, per_page, filters_dict).total
        last == (total + per_page - 1) \div per_page
        item(p, i) == C3_Page(p, per_page, filters_dict).collections[i]
        places == {<<p, i>> \in (1..last) \X (1..per_page) :
                        i <= Len(C3_Page(p, per_page, filters_dict).collections)}
    IN  /\ \A p \in 1..(last + 1) :
            Len(C3_Page(p, per_page, filters_dict).collections) <= per_page
        /\ \A pl \in places :
            /\ item(pl[1], pl[2]).id \in C3_Matching(filters_dict)
            /\ \A k \in DOMAIN filters_dict : item(pl[1], pl[2])[k] = filters_dict[k]
            /\ item(pl[1], pl[2])
                 = json_loads(where(collections, filters_dict)
                                [(pl[1] - 1) * per_page + pl[2]].data)
        /\ \A collection_id \in C3_Matching(filters_dict) :
            Cardinality({pl \in places : item(pl[1], pl[2]).id = collection_id}) = 1

C3_Filters == {<<>>, [name |-> "a"], [embedding_model |-> "m2"],
               [name |-> "b", embedding_model |-> "m2"]}

C3_Pagination ==
    \A per_page \in PerPages, filters_dict \in C3_Filters :
        /\ C3_PagesHold(per_page, filters_dict)
        /\ C3_Page(1, per_page, filters_dict).total
             = Cardinality(C3_Matching(filters_dict))

\* The part of C3 about the pages, without the reported total being the size
\* of the filtered set.
C3_PagesCoverFilteredSet ==
    \A per_page \in PerPages, filters_dict \in C3_Filters :
        C3_PagesHold(per_page, filters_dict)

\* C4: a PATCH of an existing collection sets each field of CollectionUpdate
\* that the body gives to the given value and leaves the collection's other
\* fields, every other row and every index as they were; and in every state a
\* collection that is still stored has the id and created_at its POST returned.
C4_Step ==
    /\ request'.op = "update_collection" /\ request'.collection_id \in id_column(collections)
        => LET collection_id == request'.collection_id
               old == stored(collections, collection_id)
               new == stored(collections', collection_id)
           IN  /\ response'.status = 200
               /\ response'.body = new
               /\ DOMAIN new = DOMAIN old
               /\ \A f \in UpdateFields :
                    new[f] = IF f \in DOMAIN request'.body THEN request'.body[f] ELSE old[f]
               /\ new.id = old.id
               /\ new.created_at = old.created_at
               /\ Len(collections') = Len(collections)
               /\ \A i \in DOMAIN collections :
                    /\ collections'[i].id = collections[i].id
                    /\ collections[i].id # collection_id => collections'[i] = collections[i]
               /\ chromadb' = chromadb
    /\ \A c \in created' :
        c.id \in id_column(collections')
        => /\ stored(collections', c.id).id = c.id
           /\ stored(collections', c.id).created_at = c.created_at

C4_PatchFrame == [][C4_Step]_vars

\* A PATCH that gives one field, answered 200, with another collection stored.
C4_Witness ==
    /\ request.op = "update_collection"
    /\ response.status = 200
    /\ DOMAIN request.body = {"name"}
    /\ Len(collections) >= 2
    /\ \E c \in created : c.id = request.collection_id /\ c.name # response.body.name

\* C5: get, update, delete, add document and search called with a collection
\* id that is not in the table answer 404, with or without an Authorization
\* header, change neither the table nor any index, and (search) make no call
\* to the external search API.
C5_ScopedOps == {"get_collection", "update_collection", "delete_collection",
                 "add_document", "vector_search"}

C5_Step ==
    request'.op \in C5_ScopedOps /\ request'.collection_id \notin id_column(collections)
    => /\ response'.status = StatusNotFound
       /\ collections' = collections
       /\ chromadb' = chromadb
       /\ forwarded' = None

C5_MissingCollection404 == [][C5_Step]_vars

\* C6: a search whose n is outside [1,100] or whose similarity_threshold is
\* outside [0,1] is answered 400 with message and errors in the body, and is
\* not forwarded to the search back end.
C6_InvalidSearch400 ==
    /\ request.op = "vector_search"
    /\ \/ request.n < 1 \/ request.n > 100
       \/ request.similarity_threshold < 0 \/ request.similarity_threshold > 10
    => /\ response.status = 400
       /\ {"message", "errors"} \subseteq DOMAIN response.body
       /\ forwarded = None

\* C7: every response whose status is not 2xx has message, documentation_url
\* and status_code in its body, status_code being the response's status; and a
\* create body that fails validation is answered 400 with field-level errors.
C7_ErrorEnvelope ==
    request.op # "none" /\ response.status \notin 200..299
    => /\ {"message", "documentation_url", "status_code"} \subseteq DOMAIN response.body
       /\ response.body.status_code = response.status
       /\ request.op = "create_collection"
            => /\ response.status = 400
               /\ "errors" \in DOMAIN response.body
               /\ ~IsNone(response.body.errors)

\* C8: on add document, delete document and search, a request whose
\* Authorization header is absent, does not start with "Bearer ", or is
\* "Bearer " with nothing after it is answered 401 and changes nothing; and
\* the token of a header "Bearer <t>" is t.
C8_AuthOps == {"add_document", "delete_document", "vector_search"}

C8_Malformed(authorization) ==
    \/ IsNone(authorization)
    \/ ~startswith(Value(authorization), Str_Bearer_)
    \/ Value(authorization) = Str_Bearer_

C8_Step ==
    request'.op \in C8_AuthOps
    => /\ C8_Malformed(request'.authorization)
            => /\ response'.status = StatusUnauthorized
               /\ collections' = collections
               /\ chromadb' = chromadb
               /\ forwarded' = None
       /\ ~IsNone(forwarded')
            => Str_Bearer_ \o Value(forwarded').token = Value(request'.authorization)

C8_Unauthorized401 == [][C8_Step]_vars

\* C9: the results of a search answered 200 are in non-increasing order of
\* score, none has a score below the requested similarity_threshold, and
\* there are at most n of them.
C9_SearchResultsOrdered ==
    request.op = "vector_search" /\ response.status = 200
    => LET results == response.body.results
       IN  /\ \A i \in 1..(Len(results) - 1) : results[i].score >= results[i + 1].score
           /\ \A i \in DOMAIN results : results[i].score >= request.similarity_threshold
           /\ Len(results) <= request.n

\* C10: every chunk in a collection's index was embedded with the
\* embedding_model the collection was created with.
C10_OneEmbeddingModel ==
    \A c \in created :
        \A i \in DOMAIN chromadb[c.id] :
            chromadb[c.id][i].embedding_model = c.embedding_model

\* The writes committed on a collection that set a field, by their place in
\* the commit order.
C11_Writers(collection_id, f) ==
    {i \in DOMAIN commits : /\ commits[i].collection_id = collection_id
                            /\ f \in DOMAIN commits[i].update_data}

C11_Latest(S) == CHOOSE i \in S : \A j \in S : j <= i

\* C11: concurrent PATCHes on one collection are last-write-wins in commit
\* order: each field of the stored collection holds the value of the latest
\* committed PATCH that set it, and the value it had before them if none did;
\* so a field only one request set keeps that request's value, and a field
\* both set holds the later one's.
C11_LastWriteWins ==
    LET data == stored(collections, 1)
    IN  /\ DOMAIN data = DOMAIN InitData
        /\ \A f \in DOMAIN InitData :
               data[f] = IF C11_Writers(1, f) = {}
                         THEN InitData[f]
                         ELSE commits[C11_Latest(C11_Writers(1, f))].update_data[f]

\* Two PATCHes on the collection have completed, the one that arrived second
\* committing first; name is set by both, to different values, and
\* embedding_model by the first committed only.
C11_Witness ==
    /\ Len(tasks) = 2 /\ Len(commits) = 2
    /\ \A t \in DOMAIN tasks : tasks[t].pc = "done" /\ tasks[t].status = 200
    /\ commits[1].task = 2 /\ commits[2].task = 1
    /\ commits[1].update_data = [name |-> "c", embedding_model |-> "m2"]
    /\ commits[2].update_data = [name |-> "b"]
    /\ stored(collections, 1).name = "b"
    /\ stored(collections, 1).embedding_model = "m2"

\* The Authorization header get_token accepts: "Bearer " and a token.
C12_Authorized(authorization) ==
    /\ ~IsNone(authorization)
    /\ startswith(Value(authorization), Str_Bearer_)
    /\ Len(Value(authorization)) > Len(Str_Bearer_)

C12_Effect ==
    IF request'.collection_id \in id_column(collections)
    THEN /\ response'.status = 204
         /\ chromadb'[request'.collection_id] = <<>>
         /\ \A u \in DOMAIN chromadb \ {request'.collection_id} : chromadb'[u] = chromadb[u]
         /\ collections' = collections
    ELSE /\ response'.status = StatusNotFound
         /\ chromadb' = chromadb
         /\ collections' = collections

\* C12 as stated, for every DELETE of a document whatever its Authorization
\* header: on a stored collection it answers 204 whatever the file_id,
\* empties the collection's whole index and leaves the table as it was; it
\* answers 404 only when the collection is not stored.
C12_OriginalStep ==
    request'.op = "delete_document"
    => /\ request'.collection_id \in id_column(collections) => C12_Effect
       /\ response'.status = StatusNotFound
            => request'.collection_id \notin id_column(collections)

C12_DeleteDocumentAnyRequest == [][C12_OriginalStep]_vars

\* C12, amended: a DELETE of a document that carries a bearer token answers
\* 204 on a stored collection whatever the file_id, empties the collection's
\* whole index and leaves every row and every other index as it was, and
\* answers 404 when the collection is not stored; no DELETE of a document
\* answers 404 on a stored collection.
C12_Step ==
    request'.op = "delete_document"
    => /\ C12_Authorized(request'.authorization) => C12_Effect
       /\ response'.status = StatusNotFound
            => request'.collection_id \notin id_column(collections)

C12_DeleteDocumentWholeIndex == [][C12_Step]_vars

\* A DELETE naming a file id no ingest returned has been answered 204 on the
\* one collection created, after two ingests into it: its index is empty and
\* its row is the one POST returned.
C12_Witness ==
    /\ request.op = "delete_document" /\ request.file_id = NoId
    /\ response.status = 204
    /\ Cardinality(created) = 1 /\ uuid_count = 3
    /\ chromadb[request.collection_id] = <<>>
    /\ \E c \in created : c.id = request.collection_id
                          /\ stored(collections, c.id) = c

\* C13: once a handler has returned or raised, the connection it opened is
\* closed and the temporary file it created for the upload is gone from disk.
C13_ResourcesReleased ==
    \A t \in DOMAIN tasks :
        tasks[t].pc = "done" => tasks[t].db # "open" /\ t \notin tempfiles

====
